---- MODULE Spec2Model ----
(***************************************************************************)
(* A model of SimpleHTMLParser: the tolerant tokenizer / tree builder      *)
(* (parse), entity decoding (decodeEntities), the selector compiler        *)
(* (parseSelectorList) and the selector matcher (matchesSelectorChain,     *)
(* walkElements, querySelectorAll, getElementById).                        *)
(*                                                                         *)
(* Strings are sequences of UTF-16 code units (naturals), as charCodeAt    *)
(* sees them.  Positions are 0-based like the source's i and j.            *)
(***************************************************************************)
EXTENDS Integers, Sequences, FiniteSets, TLC

VARIABLES
    html,        \* parse: the input string
    i,           \* parse: the main cursor
    j,           \* parse: the start-tag cursor
    stack,       \* parse: the open-element stack (node ids, stack[1] is the Document)
    nodes,       \* the node arena: nodes[1] is the Document
    pc,          \* parse: "main" | "attrs" | "create" | "done" | "idle"
    tagName,     \* parse: lower-cased name of the start tag being read
    attrs,       \* parse: attributes of the start tag being read
    selfClosing, \* parse: the start tag's selfClosing flag
    ent_text,    \* decodeEntities: argument
    ent_out,     \* decodeEntities: result
    ent_pc,      \* decodeEntities: "call" | "done" | "idle"
    selector,    \* parseSelectorList: argument
    groups,      \* parseSelectorList: the strings splitSelectorGroups returned
    g,           \* parseSelectorList: index of the next group
    list,        \* parseSelectorList: the compiled groups so far
    input,       \* parseSelectorGroup: argument (a trimmed group)
    gi,          \* parseSelectorGroup: the cursor i
    steps,       \* parseSelectorGroup: the steps so far
    combinator,  \* parseSelectorGroup: the pending combinator, " " or ">"
    sel_pc,      \* parseSelectorList: "split" | "list" | "group" | "done" | "idle"
    q_op,        \* the last query made of the parsed tree, "none" before any
    q_root,      \* the node the query was called on
    q_arg,       \* its selector or id
    q_result     \* what it returned

parseVars == <<html, i, j, stack, nodes, pc, tagName, attrs, selfClosing>>
entVars == <<ent_text, ent_out, ent_pc>>
selVars == <<selector, groups, g, list, input, gi, steps, combinator, sel_pc>>
queryVars == <<q_op, q_root, q_arg, q_result>>
vars == <<html, i, j, stack, nodes, pc, tagName, attrs, selfClosing,
          ent_text, ent_out, ent_pc,
          selector, groups, g, list, input, gi, steps, combinator, sel_pc,
          q_op, q_root, q_arg, q_result>>

(***************************************************************************)
(* Strings                                                                 *)
(***************************************************************************)
\* The ASCII characters of code 32 to 95, and of code 97 to 126, in code order.
Chars32 ==
    <<" ", "!", "\"", "#", "$", "%", "&", "'", "(", ")", "*", "+", ",", "-", ".", "/",
      "0", "1", "2", "3", "4", "5", "6", "7", "8", "9", ":", ";", "<", "=", ">", "?",
      "@", "A", "B", "C", "D", "E", "F", "G", "H", "I", "J", "K", "L", "M", "N", "O",
      "P", "Q", "R", "S", "T", "U", "V", "W", "X", "Y", "Z", "[", "\\", "]", "^", "_">>
Chars97 ==
    <<"a", "b", "c", "d", "e", "f", "g", "h", "i", "j", "k", "l", "m", "n", "o",
      "p", "q", "r", "s", "t", "u", "v", "w", "x", "y", "z", "{", "|", "}", "~">>

CharCode(c) ==
    IF \E k \in DOMAIN Chars32 : Chars32[k] = c
    THEN 31 + (CHOOSE k \in DOMAIN Chars32 : Chars32[k] = c)
    ELSE 96 + (CHOOSE k \in DOMAIN Chars97 : Chars97[k] = c)

\* The string written as a tuple of one-character strings, as code units.
Str(s) == [k \in DOMAIN s |-> CharCode(s[k])]

RECURSIVE Concat(_)
Concat(ss) == IF ss = <<>> THEN <<>> ELSE Head(ss) \o Concat(Tail(ss))

\* The element of a one-element set. The({F(x) : x \in {v}}) is F(v) with v
\* evaluated once, as a const of the source is.
The(S) == CHOOSE r \in S : TRUE

Min(a, b) == IF a < b THEN a ELSE b
Max(a, b) == IF a > b THEN a ELSE b

\* String.prototype.charCodeAt for an index inside the string.
charCodeAt(s, k) == s[k + 1]

\* String.prototype.slice(a, b) for 0 <= a.
slice(s, a, b) == SubSeq(s, a + 1, Min(b, Len(s)))

\* String.prototype.indexOf(pat, from): the least match position, or -1.
indexOf(s, pat, from) ==
    LET hits == {k \in from .. (Len(s) - Len(pat)) : SubSeq(s, k + 1, k + Len(pat)) = pat}
    IN IF hits = {} THEN -1 ELSE CHOOSE k \in hits : \A m \in hits : k <= m

\* String.prototype.toLowerCase on the code units modelled (ASCII).
lowerCode(c) == IF c >= 65 /\ c <= 90 THEN c + 32 ELSE c
toLowerCase(s) == [k \in DOMAIN s |-> lowerCode(s[k])]

isWhitespace(code) == code <= 32

isIdentifierChar(code) ==
    \/ (code >= 48 /\ code <= 57)
    \/ (code >= 65 /\ code <= 90)
    \/ (code >= 97 /\ code <= 122)
    \/ code = 45
    \/ code = 95
    \/ code = 58

\* The first position >= k that holds no whitespace (code <= 32), or Len(s).
RECURSIVE skipWhitespace(_, _)
skipWhitespace(s, k) ==
    IF k < Len(s) /\ isWhitespace(charCodeAt(s, k)) THEN skipWhitespace(s, k + 1) ELSE k

\* String.prototype.trim: strips the WhiteSpace and LineTerminator code units
\* (below 256: tab, LF, VT, FF, CR, space, NBSP) from both ends.
isTrimmed(c) == c \in {9, 10, 11, 12, 13, 32, 160}
RECURSIVE trimStart(_)
trimStart(s) == IF s # <<>> /\ isTrimmed(s[1]) THEN trimStart(Tail(s)) ELSE s
RECURSIVE trimEnd(_)
trimEnd(s) ==
    IF s # <<>> /\ isTrimmed(s[Len(s)]) THEN trimEnd(SubSeq(s, 1, Len(s) - 1)) ELSE s
trim(s) == trimEnd(trimStart(s))

(***************************************************************************)
(* Lookup tables                                                           *)
(***************************************************************************)
VoidNames ==
    { Str(<<"a","r","e","a">>), Str(<<"b","a","s","e">>), Str(<<"b","r">>),
      Str(<<"c","o","l">>), Str(<<"e","m","b","e","d">>), Str(<<"h","r">>),
      Str(<<"i","m","g">>), Str(<<"i","n","p","u","t">>), Str(<<"l","i","n","k">>),
      Str(<<"m","e","t","a">>), Str(<<"p","a","r","a","m">>),
      Str(<<"s","o","u","r","c","e">>), Str(<<"t","r","a","c","k">>),
      Str(<<"w","b","r">>) }

RawTextNames ==
    { Str(<<"s","c","r","i","p","t">>), Str(<<"s","t","y","l","e">>),
      Str(<<"t","e","x","t","a","r","e","a">>) }

\* The property names every object literal inherits from Object.prototype
\* whose value is a function: a lookup table[key] with such a key is truthy.
ObjectPrototypeNames ==
    { Str(<<"c","o","n","s","t","r","u","c","t","o","r">>),
      Str(<<"t","o","S","t","r","i","n","g">>),
      Str(<<"t","o","L","o","c","a","l","e","S","t","r","i","n","g">>),
      Str(<<"v","a","l","u","e","O","f">>),
      Str(<<"h","a","s","O","w","n","P","r","o","p","e","r","t","y">>),
      Str(<<"i","s","P","r","o","t","o","t","y","p","e","O","f">>),
      Str(<<"p","r","o","p","e","r","t","y","I","s","E","n","u","m","e","r","a","b","l","e">>) }

\* The void table without its entries.
VOID_ELEMENTS_Empty(tag) == tag \in ObjectPrototypeNames

\* VOID_ELEMENTS[tagName] as a condition.
VOID_ELEMENTS(tag) == tag \in VoidNames \/ tag \in ObjectPrototypeNames

\* RAWTEXT_ELEMENTS[tagName] as a condition.
RAWTEXT_ELEMENTS(tag) == tag \in RawTextNames \/ tag \in ObjectPrototypeNames

EntityNames ==
    { Str(<<"a","m","p">>), Str(<<"l","t">>), Str(<<"g","t">>),
      Str(<<"q","u","o","t">>), Str(<<"a","p","o","s">>), Str(<<"n","b","s","p">>) }

\* The own properties of ENTITY_MAP.
EntityValue(name) ==
    CASE name = Str(<<"a","m","p">>) -> <<38>>
      [] name = Str(<<"l","t">>) -> <<60>>
      [] name = Str(<<"g","t">>) -> <<62>>
      [] name = Str(<<"q","u","o","t">>) -> <<34>>
      [] name = Str(<<"a","p","o","s">>) -> <<39>>
      [] name = Str(<<"n","b","s","p">>) -> <<32>>

\* ToString of the function an inherited property holds: the constructor
\* property is the function Object, every other one is named by its key.
NativeFunctionText(name) ==
    Str(<<"f","u","n","c","t","i","o","n"," ">>)
    \o (IF name = Str(<<"c","o","n","s","t","r","u","c","t","o","r">>)
        THEN Str(<<"O","b","j","e","c","t">>) ELSE name)
    \o Str(<<"(",")"," ","{"," ","[","n","a","t","i","v","e"," ","c","o","d","e","]"," ","}">>)

(***************************************************************************)
(* decodeEntities                                                          *)
(***************************************************************************)
isHexDigit(c) == (c >= 48 /\ c <= 57) \/ (c >= 65 /\ c <= 70) \/ (c >= 97 /\ c <= 102)
isDecDigit(c) == c >= 48 /\ c <= 57
isAlpha(c) == (c >= 65 /\ c <= 90) \/ (c >= 97 /\ c <= 122)

digitValue(c) ==
    IF c >= 48 /\ c <= 57 THEN c - 48
    ELSE IF c >= 65 /\ c <= 70 THEN c - 55
    ELSE c - 87

RECURSIVE hexRunEnd(_, _)
hexRunEnd(s, k) ==
    IF k < Len(s) /\ isHexDigit(charCodeAt(s, k)) THEN hexRunEnd(s, k + 1) ELSE k

RECURSIVE alphaRunEnd(_, _)
alphaRunEnd(s, k) ==
    IF k < Len(s) /\ isAlpha(charCodeAt(s, k)) THEN alphaRunEnd(s, k + 1) ELSE k

\* The regular expression /&(#x?[0-9a-fA-F]+|[a-zA-Z]+);/ tried at position p:
\* the position after the match, or -1.
matchEntity(s, p) ==
    IF ~(p < Len(s) /\ charCodeAt(s, p) = 38) THEN -1
    ELSE IF p + 1 < Len(s) /\ charCodeAt(s, p + 1) = 35
    THEN LET q == IF p + 2 < Len(s) /\ charCodeAt(s, p + 2) = 120 THEN p + 3 ELSE p + 2
             r == hexRunEnd(s, q)
         IN IF r > q /\ r < Len(s) /\ charCodeAt(s, r) = 59 THEN r + 1 ELSE -1
    ELSE LET r == alphaRunEnd(s, p + 1)
         IN IF r > p + 1 /\ r < Len(s) /\ charCodeAt(s, r) = 59 THEN r + 1 ELSE -1

\* parseInt(s, radix): the value of the longest prefix of digits valid in the
\* radix, or -1 for NaN (no such digit).
RECURSIVE parseIntFrom(_, _, _, _)
parseIntFrom(s, k, radix, acc) ==
    IF k <= Len(s) /\ isHexDigit(s[k]) /\ digitValue(s[k]) < radix
    THEN parseIntFrom(s, k + 1, radix, acc * radix + digitValue(s[k]))
    ELSE acc
parseInt(s, radix) ==
    IF s # <<>> /\ isHexDigit(s[1]) /\ digitValue(s[1]) < radix
    THEN parseIntFrom(s, 1, radix, 0)
    ELSE -1

\* String.fromCharCode(num): one code unit, ToUint16(num).
fromCharCode(num) == <<num % 65536>>

\* The replace callback: match is the whole reference, body the text between
\* '&' and ';'.
replaceEntity(match, body) ==
    IF body[1] = 35
    THEN LET hex == Len(body) >= 2 /\ (body[2] = 120 \/ body[2] = 88)
             num == parseInt(slice(body, IF hex THEN 2 ELSE 1, Len(body)),
                             IF hex THEN 16 ELSE 10)
         IN IF num # -1 THEN fromCharCode(num) ELSE match
    ELSE IF body \in EntityNames THEN EntityValue(body)
    ELSE IF body \in ObjectPrototypeNames THEN NativeFunctionText(body)
    ELSE match

RECURSIVE replaceFrom(_, _)
replaceFrom(text, p) ==
    IF p >= Len(text) THEN <<>>
    ELSE LET m == matchEntity(text, p)
         IN IF m = -1
            THEN <<charCodeAt(text, p)>> \o replaceFrom(text, p + 1)
            ELSE replaceEntity(slice(text, p, m), slice(text, p + 1, m - 1))
                 \o replaceFrom(text, m)

decodeEntities(text) ==
    IF indexOf(text, <<38>>, 0) = -1 THEN text ELSE replaceFrom(text, 0)

(***************************************************************************)
(* The node model                                                          *)
(***************************************************************************)
\* NodeType
ElementType == 1
TextType == 3
DocumentType == 9

\* new Document(), new Element(tagName, attributes), new TextNode(text);
\* parent 0 is null.
NewDocument ==
    [nodeType |-> DocumentType, tagName |-> <<>>, attributes |-> <<>>, data |-> <<>>,
     parent |-> 0, children |-> <<>>]
NewElement(tag, attributes) ==
    [nodeType |-> ElementType, tagName |-> toLowerCase(tag), attributes |-> attributes,
     data |-> <<>>, parent |-> 0, children |-> <<>>]
NewTextNode(text) ==
    [nodeType |-> TextType, tagName |-> <<>>, attributes |-> <<>>, data |-> text,
     parent |-> 0, children |-> <<>>]

\* parent.appendChild(node) for a node already in the arena ns.
appendChild(ns, parentId, nodeId) ==
    [ns EXCEPT ![nodeId].parent = parentId,
               ![parentId].children = Append(@, nodeId)]

\* A new node n allocated in the arena, its parent left unset and no children
\* list extended.
appendNew_Detached(ns, parentId, n) == Append(ns, n)

\* A new node n allocated in the arena and appended to parentId.
appendNew(ns, parentId, n) == appendChild(Append(ns, n), parentId, Len(ns) + 1)

\* attrs[name] = value on a plain object: the key __proto__ sets no own property.
setAttr(as, name, value) ==
    IF name = Str(<<"_","_","p","r","o","t","o","_","_">>) THEN as
    ELSE [n \in (DOMAIN as) \cup {name} |-> IF n = name THEN value ELSE as[n]]

(***************************************************************************)
(* parse: one action per iteration of the main loop and of the attribute   *)
(* loop                                                                    *)
(***************************************************************************)
len == Len(html)
lowerHtml == toLowerCase(html)
atLessThan == pc = "main" /\ i < len /\ charCodeAt(html, i) = 60
isComment == i + 3 < len /\ slice(html, i, i + 4) = <<60, 33, 45, 45>>
isDeclaration == i + 1 < len /\ charCodeAt(html, i + 1) = 33
isEndTag == i + 1 < len /\ charCodeAt(html, i + 1) = 47

\* while (i < len) fails: return doc
ParseReturn ==
    /\ pc = "main"
    /\ i >= len
    /\ pc' = "done"
    /\ UNCHANGED <<html, i, j, stack, nodes, tagName, attrs, selfClosing, entVars, selVars, queryVars>>

Comment ==
    /\ atLessThan
    /\ isComment
    /\ LET end == indexOf(html, <<45, 45, 62>>, i + 4)
       IN i' = IF end = -1 THEN len ELSE end + 3
    /\ UNCHANGED <<html, j, stack, nodes, pc, tagName, attrs, selfClosing, entVars, selVars, queryVars>>

Declaration ==
    /\ atLessThan
    /\ ~isComment
    /\ isDeclaration
    /\ LET end == indexOf(html, <<62>>, i + 2)
       IN i' = IF end = -1 THEN len ELSE end + 1
    /\ UNCHANGED <<html, j, stack, nodes, pc, tagName, attrs, selfClosing, entVars, selVars, queryVars>>

\* An end tag with no '>' after it: break
EndTagUnterminated ==
    /\ atLessThan
    /\ ~isComment /\ ~isDeclaration
    /\ isEndTag
    /\ indexOf(html, <<62>>, i + 2) = -1
    /\ pc' = "done"
    /\ UNCHANGED <<html, i, j, stack, nodes, tagName, attrs, selfClosing, entVars, selVars, queryVars>>

\* The stack cut below the farthest entry from the top of that name.
closeTo_Farthest(stk, ns, name) ==
    LET hits == {k \in 2 .. Len(stk) :
                    ns[stk[k]].nodeType = ElementType /\ ns[stk[k]].tagName = name}
    IN IF name = <<>> \/ hits = {} THEN stk
       ELSE SubSeq(stk, 1, (CHOOSE k \in hits : \A m \in hits : k <= m) - 1)

\* The stack after an end tag named name: cut below the nearest entry from
\* the top, the Document excluded, that is an Element of that name.
closeTo(stk, ns, name) ==
    LET hits == {k \in 2 .. Len(stk) :
                    ns[stk[k]].nodeType = ElementType /\ ns[stk[k]].tagName = name}
    IN IF name = <<>> \/ hits = {} THEN stk
       ELSE SubSeq(stk, 1, (CHOOSE k \in hits : \A m \in hits : m <= k) - 1)

EndTag ==
    /\ atLessThan
    /\ ~isComment /\ ~isDeclaration
    /\ isEndTag
    /\ LET end == indexOf(html, <<62>>, i + 2)
       IN /\ end # -1
          /\ stack' = closeTo(stack, nodes, toLowerCase(trim(slice(html, i + 2, end))))
          /\ i' = end + 1
    /\ UNCHANGED <<html, j, nodes, pc, tagName, attrs, selfClosing, entVars, selVars, queryVars>>

\* The end of the tag name that starts at k.
RECURSIVE tagNameEnd(_, _)
tagNameEnd(s, k) ==
    IF k < Len(s) /\ ~isWhitespace(charCodeAt(s, k))
       /\ charCodeAt(s, k) # 47 /\ charCodeAt(s, k) # 62
    THEN tagNameEnd(s, k + 1)
    ELSE k

isStartTag == atLessThan /\ ~isComment /\ ~isDeclaration /\ ~isEndTag

\* '<' followed by no tag name: i++
StrayLessThan ==
    /\ isStartTag
    /\ tagNameEnd(html, i + 1) = i + 1
    /\ i' = i + 1
    /\ UNCHANGED <<html, j, stack, nodes, pc, tagName, attrs, selfClosing, entVars, selVars, queryVars>>

StartTagName ==
    /\ isStartTag
    /\ tagNameEnd(html, i + 1) > i + 1
    /\ j' = tagNameEnd(html, i + 1)
    /\ tagName' = toLowerCase(slice(html, i + 1, tagNameEnd(html, i + 1)))
    /\ attrs' = <<>>
    /\ selfClosing' = FALSE
    /\ pc' = "attrs"
    /\ UNCHANGED <<html, i, stack, nodes, entVars, selVars, queryVars>>

inAttrs == pc = "attrs" /\ j < len

\* while (j < len) fails
AttrEnd ==
    /\ pc = "attrs"
    /\ j >= len
    /\ pc' = "create"
    /\ UNCHANGED <<html, i, j, stack, nodes, tagName, attrs, selfClosing, entVars, selVars, queryVars>>

AttrWhitespace ==
    /\ inAttrs
    /\ isWhitespace(charCodeAt(html, j))
    /\ j' = j + 1
    /\ UNCHANGED <<html, i, stack, nodes, pc, tagName, attrs, selfClosing, entVars, selVars, queryVars>>

\* A '/' at position k of the tag forgets its own j++.
afterSlash_NoAdvance(s, k) == skipWhitespace(s, k)

\* After the '/' at position k: j++, then the whitespace skipped.
afterSlash(s, k) == skipWhitespace(s, k + 1)

AttrSlash ==
    /\ inAttrs
    /\ charCodeAt(html, j) = 47
    /\ selfClosing' = TRUE
    /\ LET k == afterSlash(html, j)
       IN IF k < len /\ charCodeAt(html, k) = 62
          THEN j' = k + 1 /\ pc' = "create"
          ELSE j' = k /\ pc' = pc
    /\ UNCHANGED <<html, i, stack, nodes, tagName, attrs, entVars, selVars, queryVars>>

AttrGreaterThan ==
    /\ inAttrs
    /\ charCodeAt(html, j) = 62
    /\ j' = j + 1
    /\ pc' = "create"
    /\ UNCHANGED <<html, i, stack, nodes, tagName, attrs, selfClosing, entVars, selVars, queryVars>>

\* The end of the attribute name that starts at k.
RECURSIVE attrNameEnd(_, _)
attrNameEnd(s, k) ==
    IF k < Len(s) /\ ~isWhitespace(charCodeAt(s, k)) /\ charCodeAt(s, k) # 61
       /\ charCodeAt(s, k) # 47 /\ charCodeAt(s, k) # 62
    THEN attrNameEnd(s, k + 1)
    ELSE k

\* The end of the bare attribute value that starts at k.
RECURSIVE bareValueEnd(_, _)
bareValueEnd(s, k) ==
    IF k < Len(s) /\ ~isWhitespace(charCodeAt(s, k))
       /\ charCodeAt(s, k) # 47 /\ charCodeAt(s, k) # 62
    THEN bareValueEnd(s, k + 1)
    ELSE k

\* The position of the closing quote of the value that starts at k, or Len(s).
RECURSIVE quotedValueEnd(_, _, _)
quotedValueEnd(s, k, quote) ==
    IF k < Len(s) /\ charCodeAt(s, k) # quote THEN quotedValueEnd(s, k + 1, quote) ELSE k

\* The optional "= value" read at position k (after the name and whitespace):
\* the raw value and the position after it.
attrValue(s, k) ==
    IF ~(k < Len(s) /\ charCodeAt(s, k) = 61) THEN [value |-> <<>>, next |-> k]
    ELSE LET v == skipWhitespace(s, k + 1)
         IN IF v < Len(s) /\ (charCodeAt(s, v) = 34 \/ charCodeAt(s, v) = 39)
            THEN LET e == quotedValueEnd(s, v + 1, charCodeAt(s, v))
                 IN [value |-> slice(s, v + 1, e),
                     next |-> IF e < Len(s) THEN e + 1 ELSE e]
            ELSE LET e == bareValueEnd(s, v)
                 IN [value |-> slice(s, v, e), next |-> e]

AttrNameValue ==
    /\ inAttrs
    /\ ~isWhitespace(charCodeAt(html, j))
    /\ charCodeAt(html, j) # 47
    /\ charCodeAt(html, j) # 62
    /\ LET nameEnd == attrNameEnd(html, j)
           name == toLowerCase(slice(html, j, nameEnd))
           av == attrValue(html, skipWhitespace(html, nameEnd))
       IN /\ attrs' = IF name # <<>> THEN setAttr(attrs, name, decodeEntities(av.value))
                      ELSE attrs
          /\ j' = av.next
    /\ UNCHANGED <<html, i, stack, nodes, pc, tagName, selfClosing, entVars, selVars, queryVars>>

\* "</" + tagName + ">"
closeTagOf(tag) == <<60, 47>> \o tag \o <<62>>

\* The element with its raw text, if any, appended.
withRawText(ns, elementId, rawText) ==
    IF rawText # <<>> THEN appendNew(ns, elementId, NewTextNode(rawText)) ELSE ns

\* new Element(tagName, attrs) appended to the top of the stack, then the
\* void / raw-text / push decision.
CreateElement ==
    /\ pc = "create"
    /\ LET withElement == appendNew(nodes, stack[Len(stack)], NewElement(tagName, attrs))
           element == Len(nodes) + 1
           closeIndex == indexOf(lowerHtml, closeTagOf(tagName), j)
       IN IF ~selfClosing /\ ~VOID_ELEMENTS(tagName)
          THEN IF RAWTEXT_ELEMENTS(tagName)
               THEN IF closeIndex = -1
                    THEN /\ nodes' = withRawText(withElement, element, slice(html, j, len))
                         /\ i' = len
                         /\ stack' = stack
                    ELSE /\ nodes' = withRawText(withElement, element,
                                                 slice(html, j, closeIndex))
                         /\ i' = closeIndex + Len(closeTagOf(tagName))
                         /\ stack' = stack
               ELSE /\ nodes' = withElement
                    /\ stack' = Append(stack, element)
                    /\ i' = j
          ELSE /\ nodes' = withElement
               /\ stack' = stack
               /\ i' = j
    /\ pc' = "main"
    /\ UNCHANGED <<html, j, tagName, attrs, selfClosing, entVars, selVars, queryVars>>

TextRun ==
    /\ pc = "main"
    /\ i < len
    /\ charCodeAt(html, i) # 60
    /\ LET next == indexOf(html, <<60>>, i)
           end == IF next = -1 THEN len ELSE next
           text == decodeEntities(slice(html, i, end))
       IN /\ nodes' = IF text # <<>>
                      THEN appendNew(nodes, stack[Len(stack)], NewTextNode(text))
                      ELSE nodes
          /\ i' = end
    /\ UNCHANGED <<html, j, stack, pc, tagName, attrs, selfClosing, entVars, selVars, queryVars>>

ParseNext ==
    \/ ParseReturn
    \/ Comment
    \/ Declaration
    \/ EndTagUnterminated
    \/ EndTag
    \/ StrayLessThan
    \/ StartTagName
    \/ AttrEnd
    \/ AttrWhitespace
    \/ AttrSlash
    \/ AttrGreaterThan
    \/ AttrNameValue
    \/ CreateElement
    \/ TextRun

\* parse(markup) entered: doc = new Document(), stack = [doc], i = 0
ParseStart(markup) ==
    /\ html = markup
    /\ i = 0
    /\ j = 0
    /\ nodes = <<NewDocument>>
    /\ stack = <<1>>
    /\ pc = "main"
    /\ tagName = <<>>
    /\ attrs = <<>>
    /\ selfClosing = FALSE

(***************************************************************************)
(* decodeEntities as an operation                                          *)
(***************************************************************************)


DecodeEntitiesCall ==
    /\ ent_pc = "call"
    /\ ent_out' = decodeEntities(ent_text)
    /\ ent_pc' = "done"
    /\ UNCHANGED <<ent_text, parseVars, selVars, queryVars>>


EntIdle == ent_text = <<>> /\ ent_out = <<>> /\ ent_pc = "idle"

(***************************************************************************)
(* The selector compiler                                                   *)
(***************************************************************************)
\* readIdentifier(input, start): {value, next}
RECURSIVE identifierEnd(_, _)
identifierEnd(s, k) ==
    IF k < Len(s) /\ isIdentifierChar(charCodeAt(s, k)) THEN identifierEnd(s, k + 1) ELSE k
readIdentifier(s, start) ==
    [value |-> slice(s, start, identifierEnd(s, start)), next |-> identifierEnd(s, start)]

\* The end of the bare attribute-selector value that starts at k.
RECURSIVE bareSelectorValueEnd(_, _)
bareSelectorValueEnd(s, k) ==
    IF k < Len(s) /\ ~isWhitespace(charCodeAt(s, k)) /\ charCodeAt(s, k) # 93
    THEN bareSelectorValueEnd(s, k + 1)
    ELSE k

\* readAttributeSelector(input, start), start at '[':
\* {attr: {name, value}, next}; hasValue is value !== undefined.
readAttributeSelector(s, start) ==
    LET nameData == readIdentifier(s, skipWhitespace(s, start + 1))
        name == toLowerCase(nameData.value)
        afterName == skipWhitespace(s, nameData.next)
        hasValue == afterName < Len(s) /\ charCodeAt(s, afterName) = 61
        valueAt == skipWhitespace(s, afterName + 1)
        quoted == valueAt < Len(s)
                  /\ (charCodeAt(s, valueAt) = 34 \/ charCodeAt(s, valueAt) = 39)
        quoteEnd == quotedValueEnd(s, valueAt + 1, charCodeAt(s, valueAt))
        bareEnd == bareSelectorValueEnd(s, valueAt)
        value == IF ~hasValue THEN <<>>
                 ELSE IF quoted THEN slice(s, valueAt + 1, quoteEnd)
                 ELSE slice(s, valueAt, bareEnd)
        afterValue == IF ~hasValue THEN afterName
                      ELSE IF quoted
                      THEN (IF quoteEnd < Len(s) THEN quoteEnd + 1 ELSE quoteEnd)
                      ELSE bareEnd
        close == skipWhitespace(s, afterValue)
    IN [attr |-> [name |-> name, hasValue |-> hasValue, value |-> value],
        next |-> IF close < Len(s) /\ charCodeAt(s, close) = 93 THEN close + 1 ELSE close]

\* A SelectorPart with no constraint; tag and id <<>> are undefined.
emptyPart == [tag |-> <<>>, id |-> <<>>, classes |-> <<>>, attrs |-> <<>>]

\* One iteration of the loop of parseSimpleSelector on the state
\* [part, next, done]: done when the loop is left.
simpleSelectorIteration(s, st) ==
    IF st.next >= Len(s) THEN [st EXCEPT !.done = TRUE]
    ELSE LET k == st.next
             part == st.part
             code == charCodeAt(s, k)
             ident == readIdentifier(s, k + 1)
             parsed == readAttributeSelector(s, k)
             name == readIdentifier(s, k)
         IN IF isWhitespace(code) \/ code = 62 \/ code = 44
            THEN [st EXCEPT !.done = TRUE]
            ELSE IF code = 35
            THEN [st EXCEPT !.next = ident.next,
                            !.part = IF ident.value # <<>>
                                     THEN [part EXCEPT !.id = ident.value] ELSE part]
            ELSE IF code = 46
            THEN [st EXCEPT !.next = ident.next,
                            !.part = IF ident.value # <<>>
                                     THEN [part EXCEPT !.classes = Append(@, ident.value)]
                                     ELSE part]
            ELSE IF code = 91
            THEN [st EXCEPT !.next = parsed.next,
                            !.part = IF parsed.attr.name # <<>>
                                     THEN [part EXCEPT !.attrs = Append(@, parsed.attr)]
                                     ELSE part]
            ELSE IF code = 42
            THEN [st EXCEPT !.next = k + 1, !.part = [part EXCEPT !.tag = <<42>>]]
            ELSE IF name.value # <<>>
            THEN [st EXCEPT !.next = name.next,
                            !.part = IF part.tag = <<>>
                                     THEN [part EXCEPT !.tag = toLowerCase(name.value)]
                                     ELSE part]
            ELSE [st EXCEPT !.next = k + 1]

RECURSIVE simpleSelectorLoop(_, _)
simpleSelectorLoop(s, st) ==
    IF st.done THEN [part |-> st.part, next |-> st.next]
    ELSE The({simpleSelectorLoop(s, nx) : nx \in {simpleSelectorIteration(s, st)}})

parseSimpleSelector(s, start) ==
    simpleSelectorLoop(s, [part |-> emptyPart, next |-> start, done |-> FALSE])

\* The loop of splitSelectorGroups from position k: start of the current
\* group, bracket depth, open quote (0: none), groups so far.
RECURSIVE splitFrom(_, _, _, _, _, _)
splitFrom(s, k, start, depth, quote, acc) ==
    IF k >= Len(s) THEN Append(acc, slice(s, start, Len(s)))
    ELSE LET code == charCodeAt(s, k)
         IN IF quote # 0
            THEN splitFrom(s, k + 1, start, depth, IF code = quote THEN 0 ELSE quote, acc)
            ELSE IF code = 34 \/ code = 39
            THEN splitFrom(s, k + 1, start, depth, code, acc)
            ELSE IF code = 91
            THEN splitFrom(s, k + 1, start, depth + 1, quote, acc)
            ELSE IF code = 93 /\ depth # 0
            THEN splitFrom(s, k + 1, start, depth - 1, quote, acc)
            ELSE IF code = 44 /\ depth = 0
            THEN splitFrom(s, k + 1, k + 1, depth, quote, Append(acc, slice(s, start, k)))
            ELSE splitFrom(s, k + 1, start, depth, quote, acc)

splitSelectorGroups(s) == splitFrom(s, 0, 0, 0, 0, <<>>)

\* One iteration of the loop of parseSelectorGroup that does not leave it,
\* on the state [i, steps, combinator]: the whitespace is skipped, then a '>'
\* sets the combinator, anything else is read as a simple selector.
groupIteration(s, st) ==
    LET k == skipWhitespace(s, st.i)
        parsed == parseSimpleSelector(s, k)
    IN IF charCodeAt(s, k) = 62
       THEN [i |-> k + 1, steps |-> st.steps, combinator |-> ">"]
       ELSE [i |-> parsed.next,
             steps |-> Append(st.steps, [combinator |-> st.combinator, part |-> parsed.part]),
             combinator |-> " "]

\* The loop of parseSelectorGroup is left: i >= input.length, at once or
\* after the whitespace.
groupLoopEnds(s, k) == skipWhitespace(s, k) >= Len(s)

(***************************************************************************)
(* parseSelectorList as a state machine: one action per iteration of the   *)
(* loop over the groups and of the loop of parseSelectorGroup              *)
(***************************************************************************)
SplitGroups ==
    /\ sel_pc = "split"
    /\ groups' = splitSelectorGroups(selector)
    /\ g' = 0
    /\ list' = <<>>
    /\ sel_pc' = "list"
    /\ UNCHANGED <<selector, input, gi, steps, combinator, parseVars, entVars, queryVars>>

\* groups[i].trim() is empty: continue
ListSkipEmptyGroup ==
    /\ sel_pc = "list"
    /\ g < Len(groups)
    /\ trim(groups[g + 1]) = <<>>
    /\ g' = g + 1
    /\ UNCHANGED <<selector, groups, list, input, gi, steps, combinator, sel_pc,
                   parseVars, entVars, queryVars>>

\* parseSelectorGroup(group) entered
ListEnterGroup ==
    /\ sel_pc = "list"
    /\ g < Len(groups)
    /\ trim(groups[g + 1]) # <<>>
    /\ input' = trim(groups[g + 1])
    /\ gi' = 0
    /\ steps' = <<>>
    /\ combinator' = " "
    /\ sel_pc' = "group"
    /\ UNCHANGED <<selector, groups, g, list, parseVars, entVars, queryVars>>

\* One iteration of the loop of parseSelectorGroup.  The steps of a run that
\* advances number at most Len(input); the guard stops a run that does not.
GroupIteration ==
    /\ sel_pc = "group"
    /\ ~groupLoopEnds(input, gi)
    /\ Len(steps) <= Len(input)
    /\ LET st == groupIteration(input, [i |-> gi, steps |-> steps, combinator |-> combinator])
       IN /\ gi' = st.i
          /\ steps' = st.steps
          /\ combinator' = st.combinator
    /\ UNCHANGED <<selector, groups, g, list, input, sel_pc, parseVars, entVars, queryVars>>

\* parseSelectorGroup returns steps; they are pushed if there are any.
GroupReturn ==
    /\ sel_pc = "group"
    /\ groupLoopEnds(input, gi)
    /\ list' = IF steps # <<>> THEN Append(list, steps) ELSE list
    /\ g' = g + 1
    /\ sel_pc' = "list"
    /\ UNCHANGED <<selector, groups, input, gi, steps, combinator,
                   parseVars, entVars, queryVars>>

ListReturn ==
    /\ sel_pc = "list"
    /\ g >= Len(groups)
    /\ sel_pc' = "done"
    /\ UNCHANGED <<selector, groups, g, list, input, gi, steps, combinator,
                   parseVars, entVars, queryVars>>

SelectorNext ==
    \/ SplitGroups
    \/ ListSkipEmptyGroup
    \/ ListEnterGroup
    \/ GroupIteration
    \/ GroupReturn
    \/ ListReturn

SelectorIdle ==
    /\ selector = <<>>
    /\ groups = <<>>
    /\ g = 0
    /\ list = <<>>
    /\ input = <<>>
    /\ gi = 0
    /\ steps = <<>>
    /\ combinator = " "
    /\ sel_pc = "idle"

\* parseSelectorList(sel) entered
SelectorStart(sel) ==
    /\ selector = sel
    /\ groups = <<>>
    /\ g = 0
    /\ list = <<>>
    /\ input = <<>>
    /\ gi = 0
    /\ steps = <<>>
    /\ combinator = " "
    /\ sel_pc = "split"

(***************************************************************************)
(* parseSelectorList as a value, for the queries: the list of groups, or   *)
(* diverges when an iteration of the loop of parseSelectorGroup reads a    *)
(* simple selector that ends where it starts (the loop then repeats that   *)
(* iteration for ever, pushing a step each time).                          *)
(***************************************************************************)
RECURSIVE runGroup(_, _)
runGroup(s, st) ==
    IF groupLoopEnds(s, st.i) THEN [diverges |-> FALSE, steps |-> st.steps]
    ELSE The({IF nx.i = skipWhitespace(s, st.i)
              THEN [diverges |-> TRUE, steps |-> <<>>]
              ELSE runGroup(s, nx) : nx \in {groupIteration(s, st)}})

parseSelectorGroup(s) == runGroup(s, [i |-> 0, steps |-> <<>>, combinator |-> " "])

\* One iteration of the loop of parseSelectorList over the split groups gs,
\* on the state [k, diverges, list].
listIteration(gs, st) ==
    LET group == trim(gs[st.k])
        compiled == parseSelectorGroup(group)
    IN IF group = <<>> THEN [st EXCEPT !.k = @ + 1]
       ELSE IF compiled.diverges THEN [st EXCEPT !.diverges = TRUE, !.list = <<>>]
       ELSE [st EXCEPT !.k = @ + 1,
                       !.list = IF compiled.steps # <<>> THEN Append(@, compiled.steps)
                                ELSE @]

RECURSIVE listLoop(_, _)
listLoop(gs, st) ==
    IF st.diverges \/ st.k > Len(gs) THEN [diverges |-> st.diverges, list |-> st.list]
    ELSE The({listLoop(gs, nx) : nx \in {listIteration(gs, st)}})

\* {diverges, list}: the call never returns, or returns list.
parseSelectorList(sel) ==
    The({listLoop(gs, [k |-> 1, diverges |-> FALSE, list |-> <<>>]) :
            gs \in {splitSelectorGroups(sel)}})

(***************************************************************************)
(* The selector matcher and the traversal                                  *)
(***************************************************************************)
\* Element.hasAttribute / getAttribute (null is a miss) / id / className
hasAttribute(el, name) == toLowerCase(name) \in DOMAIN el.attributes
getAttributeOr(el, name, default) ==
    IF hasAttribute(el, name) THEN el.attributes[toLowerCase(name)] ELSE default
idOf(el) == getAttributeOr(el, Str(<<"i","d">>), <<>>)
classNameOf(el) == getAttributeOr(el, Str(<<"c","l","a","s","s">>), <<>>)

\* value.trim().split(/\s+/) for a trimmed, non-empty value
RECURSIVE splitOnWhitespace(_, _)
splitOnWhitespace(s, current) ==
    IF s = <<>> THEN <<current>>
    ELSE IF isTrimmed(s[1])
    THEN (IF current = <<>> THEN splitOnWhitespace(Tail(s), <<>>)
          ELSE <<current>> \o splitOnWhitespace(trimStart(s), <<>>))
    ELSE splitOnWhitespace(Tail(s), Append(current, s[1]))

splitClassList(value) ==
    IF trim(value) = <<>> THEN <<>> ELSE splitOnWhitespace(trim(value), <<>>)

classListOf(el) == splitClassList(classNameOf(el))

Range(f) == {f[k] : k \in DOMAIN f}

matchesSelectorPart(el, part) ==
    /\ ~(part.tag # <<>> /\ part.tag # <<42>> /\ el.tagName # part.tag)
    /\ ~(part.id # <<>> /\ idOf(el) # part.id)
    /\ \A k \in DOMAIN part.classes : part.classes[k] \in Range(classListOf(el))
    /\ \A k \in DOMAIN part.attrs :
          /\ hasAttribute(el, part.attrs[k].name)
          /\ part.attrs[k].hasValue
                => el.attributes[toLowerCase(part.attrs[k].name)] = part.attrs[k].value

\* NodeBase.parentElement; 0 is null
parentElement(ns, n) ==
    IF ns[n].parent # 0 /\ ns[ns[n].parent].nodeType = ElementType THEN ns[n].parent ELSE 0

\* The descendant combinator taking the farthest matching ancestor.
RECURSIVE nearestMatching_Farthest(_, _, _)
nearestMatching_Farthest(ns, parent, target) ==
    IF parent = 0 THEN 0
    ELSE LET far == nearestMatching_Farthest(ns, parentElement(ns, parent), target)
         IN IF far # 0 THEN far
            ELSE IF matchesSelectorPart(ns[parent], target) THEN parent ELSE 0

\* The descendant combinator looking at the parent only.
nearestMatching_ParentOnly(ns, parent, target) ==
    IF parent # 0 /\ matchesSelectorPart(ns[parent], target) THEN parent ELSE 0

\* The inner loop of the descendant combinator: the nearest ancestor element
\* from parent upward that matches target, or 0.
RECURSIVE nearestMatching(_, _, _)
nearestMatching(ns, parent, target) ==
    IF parent # 0 /\ ~matchesSelectorPart(ns[parent], target)
    THEN The({nearestMatching(ns, up, target) : up \in {parentElement(ns, parent)}})
    ELSE parent

\* One iteration of the while (index > 0) loop of matchesSelectorChain on the
\* state [current, index, result]; index is 0-based, result "go" while the
\* loop goes on.
chainIteration(ns, chain, st) ==
    LET target == chain[st.index].part
        up == parentElement(ns, st.current)
        found == nearestMatching(ns, up, target)
    IN IF chain[st.index + 1].combinator = ">"
       THEN IF up = 0 \/ ~matchesSelectorPart(ns[up], target)
            THEN [st EXCEPT !.result = "false"]
            ELSE [st EXCEPT !.current = up, !.index = @ - 1]
       ELSE IF found = 0
            THEN [st EXCEPT !.result = "false"]
            ELSE [st EXCEPT !.current = found, !.index = @ - 1]

RECURSIVE chainLoop(_, _, _)
chainLoop(ns, chain, st) ==
    IF st.result = "false" THEN FALSE
    ELSE IF st.index <= 0 THEN TRUE
    ELSE The({chainLoop(ns, chain, nx) : nx \in {chainIteration(ns, chain, st)}})

matchesSelectorChain(ns, element, chain) ==
    /\ chain # <<>>
    /\ matchesSelectorPart(ns[element], chain[Len(chain)].part)
    /\ chainLoop(ns, chain, [current |-> element, index |-> Len(chain) - 1, result |-> "go"])

\* for (i < groups.length) if (matchesSelectorChain(el, groups[i])) ...
matchesAnyGroup(ns, element, groupList) ==
    \E k \in DOMAIN groupList : matchesSelectorChain(ns, element, groupList[k])

reverse(s) == [k \in DOMAIN s |-> s[Len(s) + 1 - k]]

\* The iteration of walkElements pushing the children first to last.
walkIteration_Unreversed(ns, st) ==
    [stack |-> SubSeq(st.stack, 1, Len(st.stack) - 1) \o ns[st.stack[Len(st.stack)]].children,
     visited |-> IF ns[st.stack[Len(st.stack)]].nodeType = ElementType
                 THEN Append(st.visited, st.stack[Len(st.stack)])
                 ELSE st.visited]

\* One iteration of the while (stack.length) loop of walkElements with a
\* callback that never returns false, on the state [stack, visited]: visited
\* are the elements the callback was given, in that order.
walkIteration(ns, st) ==
    LET node == st.stack[Len(st.stack)]
        rest == SubSeq(st.stack, 1, Len(st.stack) - 1)
    IN [stack |-> rest \o reverse(ns[node].children),
        visited |-> IF ns[node].nodeType = ElementType THEN Append(st.visited, node)
                    ELSE st.visited]

RECURSIVE walkLoop(_, _)
walkLoop(ns, st) ==
    IF st.stack = <<>> THEN st.visited
    ELSE The({walkLoop(ns, nx) : nx \in {walkIteration(ns, st)}})

walkElements(ns, root, includeRoot) ==
    walkLoop(ns, [stack |-> IF includeRoot THEN <<root>> ELSE reverse(ns[root].children),
                  visited |-> <<>>])

\* querySelectorAll(root, selector, includeRoot): {diverges, value}
querySelectorAll(ns, root, sel, includeRoot) ==
    The({IF compiled.diverges THEN [diverges |-> TRUE, value |-> <<>>]
         ELSE [diverges |-> FALSE,
               value |-> SelectSeq(walkElements(ns, root, includeRoot),
                                   LAMBDA el : matchesAnyGroup(ns, el, compiled.list))] :
            compiled \in {parseSelectorList(sel)}})

\* querySelectorOne(root, selector, includeRoot): {diverges, value}; the walk
\* stops at the first element a group matches; 0 is null.
querySelectorOne(ns, root, sel, includeRoot) ==
    The({IF compiled.diverges THEN [diverges |-> TRUE, value |-> 0]
         ELSE The({[diverges |-> FALSE, value |-> IF hits = <<>> THEN 0 ELSE hits[1]] :
                      hits \in {SelectSeq(walkElements(ns, root, includeRoot),
                                          LAMBDA el : matchesAnyGroup(ns, el, compiled.list))}}) :
            compiled \in {parseSelectorList(sel)}})

\* matchesSelector(element, selector): {diverges, value}
matchesSelector(ns, element, sel) ==
    The({IF compiled.diverges THEN [diverges |-> TRUE, value |-> FALSE]
         ELSE [diverges |-> FALSE, value |-> matchesAnyGroup(ns, element, compiled.list)] :
            compiled \in {parseSelectorList(sel)}})

\* Document.getElementById(id)
getElementById(ns, id) == querySelectorOne(ns, 1, <<35>> \o id, FALSE)

(***************************************************************************)
(* Queries of the tree parse returned                                      *)
(***************************************************************************)
QueryIdle == q_op = "none" /\ q_root = 0 /\ q_arg = <<>> /\ q_result = <<>>

elementsOf(ns) == {n \in DOMAIN ns : ns[n].nodeType = ElementType}

(***************************************************************************)
(* Bounded inputs: concatenations of fragments                             *)
(***************************************************************************)
FragSeqs(F, n) == UNION {[1 .. k -> F] : k \in 0 .. n}
Concats(F, n) == {Concat(fs) : fs \in FragSeqs(F, n)}

\* The number of fragments an argument of decodeEntities is made of.
MaxEntFrags == 3

EntFrags ==
    { <<38>>,                                   \* &
      <<38, 35>>,                               \* &#
      <<38, 35, 120>>,                          \* &#x
      <<38, 35, 88>>,                           \* &#X
      <<59>>,                                   \* ;
      Str(<<"1">>), Str(<<"a">>), Str(<<"6","5">>), Str(<<"4","1">>),
      Str(<<"1","2","8","5","1","2">>),         \* 0x1F600 in decimal
      Str(<<"1","F","6","0","0">>),
      Str(<<"a","m","p">>), Str(<<"l","t">>), Str(<<"g","t">>),
      Str(<<"q","u","o","t">>), Str(<<"a","p","o","s">>), Str(<<"n","b","s","p">>),
      Str(<<"f","o","o">>), Str(<<"A","M","P">>),
      Str(<<"c","o","n","s","t","r","u","c","t","o","r">>),
      Str(<<"v","a","l","u","e","O","f">>) }

EntInputs == Concats(EntFrags, MaxEntFrags)

(***************************************************************************)
(* parse: bounded inputs                                                   *)
(***************************************************************************)
\* The number of fragments a document is made of.
MaxFrags == 3

DocFrags ==
    { Str(<<"<","b",">">>),   \* <b>
      Str(<<"<","/","b",">">>),   \* </b>
      Str(<<"<","b","r",">">>),   \* <br>
      Str(<<"<","b","r","/",">">>),   \* <br/>
      Str(<<"<","/","b","r",">">>),   \* </br>
      Str(<<"<","s","c","r","i","p","t",">">>),   \* <script>
      Str(<<"<","s","c","r","i","p","t"," ","a","=","'","1","'",">">>),   \* <script a='1'>
      Str(<<"<","s","c","r","i","p","t"," ","a","=","/","x",">">>),   \* <script a=/x>
      Str(<<"<","/","S","c","r","i","p","t",">">>),   \* </Script>
      Str(<<"x","&","l","t",";">>),   \* x&lt;
      Str(<<"<","!","-","-">>),   \* <!--
      Str(<<"-","-",">">>),   \* -->
      Str(<<"<","!","d">>),   \* <!d
      Str(<<"<">>),   \* <
      Str(<<"<","/","b">>),   \* </b
      Str(<<"<","b"," ","a","=","/","x",">">>) }   \* <b a=/x>

\* The number of fragments between "<b" and "t</b>" in a document that
\* exercises the attribute loop.
MaxTagFrags == 4

TagFrags ==
    { Str(<<" ">>),   \*
      Str(<<"/">>),   \* /
      Str(<<">">>),   \* >
      Str(<<"a">>),   \* a
      Str(<<"=">>),   \* =
      Str(<<"'">>) }   \* '

TagInputs == {Str(<<"<","b">>) \o w \o Str(<<"t","<","/","b",">">>) : w \in Concats(TagFrags, MaxTagFrags)}

\* Unbalanced markup: one end tag closes three elements, the next one matches
\* nothing.
RecoveryDocs ==
    { Str(<<"<","d","i","v",">","<","p",">","<","S","P","A","N",">","t","<","/","D","I","V"," ",">","u","<","/","p",">">>) }   \* <div><p><SPAN>t</DIV >u</p>

ParseInputs == Concats(DocFrags, MaxFrags) \cup TagInputs \cup RecoveryDocs

Init ==
    /\ \E markup \in ParseInputs : ParseStart(markup)
    /\ EntIdle
    /\ SelectorIdle
    /\ QueryIdle
Next == ParseNext
Spec == Init /\ [][Next]_vars

(***************************************************************************)
(* SpecEntities: decodeEntities applied to bounded arguments               *)
(***************************************************************************)
ParseIdle ==
    /\ html = <<>>
    /\ i = 0
    /\ j = 0
    /\ nodes = <<NewDocument>>
    /\ stack = <<1>>
    /\ pc = "idle"
    /\ tagName = <<>>
    /\ attrs = <<>>
    /\ selfClosing = FALSE

InitEntities ==
    /\ ParseIdle
    /\ ent_text \in EntInputs
    /\ ent_out = <<>>
    /\ ent_pc = "call"
    /\ SelectorIdle
    /\ QueryIdle
NextEntities == DecodeEntitiesCall
SpecEntities == InitEntities /\ [][NextEntities]_vars

(***************************************************************************)
(* SpecSelector: parseSelectorList run on bounded selectors                 *)
(***************************************************************************)
\* The number of fragments a selector is made of.
MaxSelFrags == 3

SelFrags ==
    { Str(<<"d","i","v">>),   \* div
      Str(<<" ">>),   \*
      Str(<<">">>),   \* >
      Str(<<",">>),   \* ,
      Str(<<"#","i">>),   \* #i
      Str(<<".","c">>),   \* .c
      Str(<<"[","a">>),   \* [a
      Str(<<"=","v">>),   \* =v
      Str(<<"]">>),   \* ]
      Str(<<"'">>),   \* '
      Str(<<"*">>),   \* *
      Str(<<"+">>),   \* +
      Str(<<"[">>) }   \* [

SelInputs == Concats(SelFrags, MaxSelFrags)

InitSelector ==
    /\ ParseIdle
    /\ EntIdle
    /\ QueryIdle
    /\ \E sel \in SelInputs : SelectorStart(sel)
NextSelector == SelectorNext
SpecSelector == InitSelector /\ [][NextSelector]_vars

(***************************************************************************)
(* SpecQuery: bounded documents parsed, then queried once                   *)
(***************************************************************************)
\* The number of fragments a queried document is made of.
MaxQueryFrags == 3

QueryDocFrags ==
    { Str(<<"<","d","i","v",">">>),   \* <div>
      Str(<<"<","s","p","a","n"," ","c","l","a","s","s","=","'","a","'",">">>),   \* <span class='a'>
      Str(<<"<","p"," ","i","d","=","'","a","'",">">>),   \* <p id='a'>
      Str(<<"<","d","i","v"," ","c","l","a","s","s","=","'","a","'",">">>),   \* <div class='a'>
      Str(<<"<","/","d","i","v",">">>),   \* </div>
      Str(<<"<","/","p",">">>) }   \* </p>

\* Documents that need every recovery rule of parse, and the documents of the
\* test suite.
TolerantDocs ==
    { Str(<<"<","!","-","-","c","-","-",">","<","!","d",">","<"," ","<","d","i","v"," ","i","d","=","x"," ",">","<","b","r","/",">","t","<","/","d","i","v">>),   \* <!--c--><!d>< <div id=x ><br/>t</div
      Str(<<"<","d","i","v"," ","c","l","a","s","s","=","'","a"," ","b","'",">","<","p"," ","I","D","=">>),   \* <div class='a b'><p ID=
      Str(<<"<","d","i","v",">","<","p",">","<","s","e","c","t","i","o","n",">","<","p",">","<","s","p","a","n",">">>),   \* <div><p><section><p><span>
      Str(<<"<","d","i","v"," ","i","d","=","'","a","p","p","'",">","<","s","p","a","n"," ","c","l","a","s","s","=","'","x","'",">","h","i","<","/","s","p","a","n",">","<","/","d","i","v",">">>),
      Str(<<"<","d","i","v",">","<","s","p","a","n"," ","c","l","a","s","s","=","'","a","'",">","<","/","s","p","a","n",">","<","s","e","c","t","i","o","n",">","<","s","p","a","n"," ","c","l","a","s","s","=","'","b","'",">","<","/","s","p","a","n",">","<","/","s","e","c","t","i","o","n",">","<","/","d","i","v",">">>),   \* <div><span class='a'></span><section><span class='b'></span></section></div>
      Str(<<"<","d","i","v"," ","c","l","a","s","s","=","'","a","'",">","<","p"," ","i","d","=","'","a","'",">","<","/","p",">","<","s","p","a","n"," ","c","l","a","s","s","=","'","a","'",">","<","p",">","<","/","p",">","t","<","/","s","p","a","n",">","<","d","i","v",">","<","/","d","i","v",">","<","/","d","i","v",">">>),   \* <div class='a'><p id='a'></p><span class='a'><p></p>t</span><div></div></div>   \* <div id='app'><span class='x'>hi</span></div>
      Str(<<"<","p"," ","i","d","=","'","a",".","b","'",">","<","/","p",">","<","p"," ","i","d","=","'","a","'"," ","c","l","a","s","s","=","'","b","'",">">>) }   \* <p id='a.b'></p><p id='a' class='b'>

QueryDocs == Concats(QueryDocFrags, MaxQueryFrags) \cup TolerantDocs

SimpleSelectors ==
    { Str(<<"d","i","v">>),   \* div
      Str(<<"s","p","a","n">>),   \* span
      Str(<<".","a">>),   \* .a
      Str(<<"p">>) }   \* p

\* x, "x y", "x > y", "x>y" and "x, y" for simple selectors x and y
QuerySelectors ==
    SimpleSelectors
    \cup {x \o c \o y : x \in SimpleSelectors, y \in SimpleSelectors,
                         c \in {<<32>>, <<32, 62, 32>>, <<62>>, <<44, 32>>}}

QueryIds ==
    { Str(<<"a">>),   \* a
      Str(<<"a",".","b">>),   \* a.b
      Str(<<"a","p","p">>),   \* app
      Str(<<"x">>),   \* x
      Str(<<" ">>),   \*
      Str(<<"[">>),   \* [
      Str(<<"a",",","b">>) }   \* a,b

QuerySelectorAll ==
    /\ pc = "done"
    /\ q_op = "none"
    /\ \E root \in {1} \cup elementsOf(nodes) : \E sel \in QuerySelectors :
          /\ q_op' = "querySelectorAll"
          /\ q_root' = root
          /\ q_arg' = sel
          /\ q_result' = querySelectorAll(nodes, root, sel, FALSE)
    /\ UNCHANGED <<parseVars, entVars, selVars>>

Matches ==
    /\ pc = "done"
    /\ q_op = "none"
    /\ \E element \in elementsOf(nodes) : \E sel \in QuerySelectors :
          /\ q_op' = "matches"
          /\ q_root' = element
          /\ q_arg' = sel
          /\ q_result' = matchesSelector(nodes, element, sel)
    /\ UNCHANGED <<parseVars, entVars, selVars>>

GetElementById ==
    /\ pc = "done"
    /\ q_op = "none"
    /\ \E id \in QueryIds \cup {<<>>} :
          /\ q_op' = "getElementById"
          /\ q_root' = 1
          /\ q_arg' = id
          /\ q_result' = getElementById(nodes, id)
    /\ UNCHANGED <<parseVars, entVars, selVars>>

\* The queries read the tree and leave it as it is: one query a behaviour
\* covers every query.
InitQuery ==
    /\ \E markup \in QueryDocs : ParseStart(markup)
    /\ EntIdle
    /\ SelectorIdle
    /\ QueryIdle
NextQuery == ParseNext \/ QuerySelectorAll \/ Matches \/ GetElementById
SpecQuery == InitQuery /\ [][NextQuery]_vars

(***************************************************************************)
(* Chains of three steps and selectors with unsupported characters         *)
(***************************************************************************)
MaxChainFrags == 4

ChainDocFrags ==
    { Str(<<"<","d","i","v",">">>),
      Str(<<"<","p",">">>),
      Str(<<"<","s","p","a","n",">">>),
      Str(<<"<","/","p",">">>) }   \* <div> <p> <span> </p>

ChainDocs == Concats(ChainDocFrags, MaxChainFrags) \cup TolerantDocs

ChainSimpleSelectors ==
    { Str(<<"d","i","v">>),
      Str(<<"p">>),
      Str(<<"s","p","a","n">>) }   \* div p span

\* " + ", " ~ " and "+" between two simple selectors
UnsupportedFragments == {<<32, 43, 32>>, <<32, 126, 32>>, <<43>>}

\* "x + y", "x ~ y", "x+y" and "a > b c"
ChainSelectors ==
    {x \o u \o y : x \in ChainSimpleSelectors, y \in ChainSimpleSelectors,
                   u \in UnsupportedFragments}
    \cup {a \o <<32, 62, 32>> \o b \o <<32>> \o c :
             a \in ChainSimpleSelectors, b \in ChainSimpleSelectors,
             c \in ChainSimpleSelectors}

\* element.matches(selector) for the selectors above
MatchesChain ==
    /\ pc = "done"
    /\ q_op = "none"
    /\ \E element \in elementsOf(nodes) : \E sel \in ChainSelectors :
          /\ q_op' = "matches"
          /\ q_root' = element
          /\ q_arg' = sel
          /\ q_result' = matchesSelector(nodes, element, sel)
    /\ UNCHANGED <<parseVars, entVars, selVars>>

InitChains ==
    /\ \E markup \in ChainDocs : ParseStart(markup)
    /\ EntIdle
    /\ SelectorIdle
    /\ QueryIdle
NextChains == ParseNext \/ MatchesChain
SpecChains == InitChains /\ [][NextChains]_vars

(***************************************************************************)
(* appendChild on the parsed tree                                          *)
(***************************************************************************)
MaxAppends == 2

\* The number of entries of all children lists of the arena.
RECURSIVE childEntries(_, _)
childEntries(ns, n) ==
    IF n = 0 THEN 0 ELSE Len(ns[n].children) + childEntries(ns, n - 1)

\* parse appends every node but the Document once; every call of appendChild
\* after it adds one entry more.
appendsDone(ns) == childEntries(ns, Len(ns)) - (Len(ns) - 1)

\* parent.appendChild(node) for a Document or Element parent and any node of
\* the tree.
AppendChild ==
    /\ pc = "done"
    /\ appendsDone(nodes) < MaxAppends
    /\ \E parentId \in DOMAIN nodes : \E nodeId \in DOMAIN nodes :
          /\ nodes[parentId].nodeType \in {DocumentType, ElementType}
          /\ nodes' = appendChild(nodes, parentId, nodeId)
    /\ UNCHANGED <<html, i, j, stack, pc, tagName, attrs, selfClosing,
                   entVars, selVars, queryVars>>

InitAppend ==
    /\ \E markup \in QueryDocs : ParseStart(markup)
    /\ EntIdle
    /\ SelectorIdle
    /\ QueryIdle
NextAppend == ParseNext \/ AppendChild
SpecAppend == InitAppend /\ [][NextAppend]_vars

(***************************************************************************)
(* Claims checked under Spec (parse)                                       *)
(***************************************************************************)
\* C1: parse terminates and returns the Document: every iteration of
\* the main loop either exits the loop, or enters the attribute loop with
\* the tag cursor j beyond i, or strictly advances i, never past the end of
\* the input; every iteration of the attribute loop strictly advances j or
\* leaves the loop; and the element creation that ends a start tag strictly
\* advances i.
C1_ParseTerminates ==
    [][/\ pc = "main" =>
             \/ pc' = "done"
             \/ pc' = "attrs" /\ j' > i /\ j' <= len
             \/ pc' = "main" /\ i' > i /\ i' <= len
       /\ pc = "attrs" =>
             /\ j' <= len
             /\ (pc' = "attrs" /\ j' > j) \/ (pc' = "create" /\ j' >= j)
       /\ pc = "create" =>
             pc' = "main" /\ i' >= j /\ i' > i /\ i' <= len]_vars

\* C1 witness: parse has returned with the cursor at the end of the input,
\* having built elements, attributes and text.
C1_Witness ==
    /\ pc = "done"
    /\ i = len
    /\ \E n \in DOMAIN nodes : nodes[n].nodeType = TextType
    /\ \E n \in DOMAIN nodes : nodes[n].nodeType = ElementType /\ nodes[n].attributes # <<>>
    /\ Len(stack) > 1

\* C3: a start tag whose name is in the raw-text set, whatever its
\* attributes, gets the source text from its '>' to the next case-insensitive
\* matching end tag (or the end of input) as its single Text child, verbatim,
\* and the cursor moves past that end tag, so nothing inside the span is
\* tokenized.
C3_RawTextVerbatim ==
    [][(pc = "create" /\ tagName \in RawTextNames) =>
          LET closeTag == <<60, 47>> \o tagName \o <<62>>
              closeIndex == indexOf(toLowerCase(html), closeTag, j)
              span == slice(html, j, IF closeIndex = -1 THEN len ELSE closeIndex)
              element == Len(nodes) + 1
          IN /\ Len(nodes') >= element
             /\ nodes'[element].nodeType = ElementType
             /\ nodes'[element].tagName = tagName
             /\ IF span = <<>> THEN nodes'[element].children = <<>>
                ELSE /\ Len(nodes'[element].children) = 1
                     /\ nodes'[nodes'[element].children[1]].nodeType = TextType
                     /\ nodes'[nodes'[element].children[1]].data = span
             /\ i' = IF closeIndex = -1 THEN len ELSE closeIndex + Len(closeTag)]_vars

\* C4: every Element whose tag name is in the void set has no children, and
\* creating it leaves the open-element stack as it was, so that what follows
\* it is attached to the container that was open before it.
C4_VoidNoChildren ==
    [][/\ \A n \in DOMAIN nodes' :
             (nodes'[n].nodeType = ElementType /\ nodes'[n].tagName \in VoidNames)
                => nodes'[n].children = <<>>
       /\ (pc = "create" /\ tagName \in VoidNames) => (stack' = stack /\ i' = j)]_vars

\* C4 witness: a void element inside a <b>, written without '/', followed by
\* a Text sibling in the same parent.
C4_Witness ==
    \E n \in DOMAIN nodes : \E t \in DOMAIN nodes :
        /\ nodes[n].nodeType = ElementType
        /\ nodes[n].tagName \in VoidNames
        /\ nodes[t].nodeType = TextType
        /\ nodes[n].parent = nodes[t].parent
        /\ nodes[nodes[n].parent].nodeType = ElementType
        /\ n < t
        /\ ~selfClosing
        /\ pc = "done"

\* The start tag read between i and j ends with '/', optional whitespace, '>'.
trailingSlash ==
    /\ j >= i + 2
    /\ charCodeAt(html, j - 1) = 62
    /\ \E k \in i .. (j - 2) :
          /\ charCodeAt(html, k) = 47
          /\ \A m \in (k + 1) .. (j - 2) : isWhitespace(charCodeAt(html, m))

\* C10: a start tag is self-closing only when a '/' directly precedes its
\* closing '>' (whitespace allowed between); with a '/' elsewhere in the tag
\* a non-void, non-raw-text element is pushed onto the open-element stack.
C10_SelfClosingOnlyTrailingSlash ==
    [][pc = "create" =>
          /\ selfClosing => trailingSlash
          /\ (~trailingSlash /\ tagName \notin VoidNames /\ tagName \notin RawTextNames)
                => stack' = Append(stack, Len(nodes) + 1)]_vars



\* The end tag read at the cursor, "</" name ">": its name, trimmed and
\* lower-cased.
endTagRead ==
    /\ pc = "main"
    /\ i + 1 < len
    /\ charCodeAt(html, i) = 60
    /\ charCodeAt(html, i + 1) = 47
    /\ indexOf(html, <<62>>, i + 2) # -1
endTagName == toLowerCase(trim(slice(html, i + 2, indexOf(html, <<62>>, i + 2))))

\* C12: an end tag whose name some Element on the stack above the Document
\* has truncates the stack to just below the nearest such element from the
\* top, so that the element's parent is the new top; with no match the stack
\* is unchanged; no node is created and the Document is never popped.
C12_EndTagTruncates ==
    [][endTagRead =>
          LET matching == {k \in 2 .. Len(stack) :
                              /\ nodes[stack[k]].nodeType = ElementType
                              /\ nodes[stack[k]].tagName = endTagName}
          IN /\ nodes' = nodes
             /\ Len(stack') >= 1
             /\ stack'[1] = stack[1]
             /\ matching = {} => stack' = stack
             /\ \A k \in matching :
                   (\A m \in matching : m <= k)
                      => /\ stack' = SubSeq(stack, 1, k - 1)
                         /\ stack'[Len(stack')] = nodes[stack[k]].parent]_vars

\* C12 witness: </DIV > has closed div, p and span at once, the text after it
\* went to the Document, and </p> then matched nothing.
C12_Witness ==
    /\ pc = "done"
    /\ stack = <<1>>
    /\ \E t \in DOMAIN nodes : \E e \in DOMAIN nodes :
          /\ nodes[t].nodeType = TextType
          /\ nodes[t].parent = 1
          /\ nodes[e].nodeType = ElementType
          /\ nodes[e].parent # 0
          /\ nodes[nodes[e].parent].nodeType = ElementType
          /\ nodes[nodes[e].parent].parent # 0
          /\ nodes[nodes[nodes[e].parent].parent].nodeType = ElementType
          /\ e < t

\* C15: the open-element stack is never empty, its first entry is the
\* Document, every other entry is an Element that is neither void nor
\* raw-text and is a child of the entry below it; every node created is
\* attached below the Document.
C15_StackIsAncestorChain ==
    /\ Len(stack) >= 1
    /\ stack[1] = 1
    /\ nodes[1].nodeType = DocumentType
    /\ \A k \in 2 .. Len(stack) :
          /\ nodes[stack[k]].nodeType = ElementType
          /\ nodes[stack[k]].tagName \notin VoidNames
          /\ nodes[stack[k]].tagName \notin RawTextNames
          /\ nodes[stack[k]].parent = stack[k - 1]
          /\ \E c \in DOMAIN nodes[stack[k - 1]].children :
                nodes[stack[k - 1]].children[c] = stack[k]
    /\ \A n \in 2 .. Len(nodes) :
          /\ nodes[n].parent \in 1 .. (n - 1)
          /\ \E c \in DOMAIN nodes[nodes[n].parent].children :
                nodes[nodes[n].parent].children[c] = n

\* C15 witness: two nested open elements on the stack and a void element that
\* was not pushed.
C15_Witness ==
    /\ pc = "main"
    /\ Len(stack) >= 3
    /\ \E n \in DOMAIN nodes :
          /\ nodes[n].nodeType = ElementType
          /\ nodes[n].tagName \in VoidNames
          /\ nodes[n].parent = stack[Len(stack)]

(***************************************************************************)
(* Selector compilation                                                    *)
(***************************************************************************)
\* C2: compiling a selector terminates: every iteration of the loop of
\* parseSelectorGroup that stays in the loop moves i forward in the group,
\* so the loop runs at most input.length times and returns its steps.
C2_CompileTerminates ==
    [][sel_pc = "group" /\ sel_pc' = "group" => gi' > gi /\ gi' <= Len(input)]_vars

(***************************************************************************)
(* Claims checked under SpecEntities (decodeEntities)                      *)
(***************************************************************************)
\* The text is "&" name ";" with a non-empty name.
isReference(text) == Len(text) >= 3 /\ text[1] = 38 /\ text[Len(text)] = 59
referenceBody(text) == SubSeq(text, 2, Len(text) - 1)
allOf(s, P(_)) == \A k \in DOMAIN s : P(s[k])

\* C8: &name; is replaced only for the six names of the table; a reference
\* with any other alphabetic name is left unchanged, ampersand and semicolon
\* included.
C8_OnlySixNamesDecoded ==
    (ent_pc = "done" /\ isReference(ent_text) /\ allOf(referenceBody(ent_text), isAlpha))
        => ent_out = IF referenceBody(ent_text) \in EntityNames
                     THEN EntityValue(referenceBody(ent_text))
                     ELSE ent_text

\* The number a digit string writes in a radix.
RECURSIVE numeral(_, _)
numeral(ds, radix) ==
    IF ds = <<>> THEN 0
    ELSE numeral(SubSeq(ds, 1, Len(ds) - 1), radix) * radix + digitValue(ds[Len(ds)])

\* The character with code point n, in UTF-16.
codePoint(n) ==
    IF n < 65536 THEN <<n>>
    ELSE <<55296 + ((n - 65536) \div 1024), 56320 + ((n - 65536) % 1024)>>

\* C9: &#N; and &#xH; decode to exactly the character with that code point,
\* also above 65535; a decimal reference whose payload holds a hex letter is
\* left verbatim.
C9_NumericReferences ==
    (ent_pc = "done" /\ isReference(ent_text) /\ Len(ent_text) >= 4 /\ ent_text[2] = 35) =>
        LET body == referenceBody(ent_text)
            dec == SubSeq(body, 2, Len(body))
            hex == SubSeq(body, 3, Len(body))
        IN /\ (allOf(dec, isDecDigit) /\ numeral(dec, 10) <= 1114111)
                => ent_out = codePoint(numeral(dec, 10))
           /\ (body[2] = 120 /\ hex # <<>> /\ allOf(hex, isHexDigit)
               /\ numeral(hex, 16) <= 1114111)
                => ent_out = codePoint(numeral(hex, 16))
           /\ (allOf(dec, isHexDigit) /\ ~allOf(dec, isDecDigit))
                => ent_out = ent_text

(***************************************************************************)
(* Queries                                                                 *)
(***************************************************************************)
\* The ancestor elements of node n.
RECURSIVE ancestors(_, _)
ancestors(ns, n) ==
    IF parentElement(ns, n) = 0 THEN {}
    ELSE {parentElement(ns, n)} \cup ancestors(ns, parentElement(ns, n))

\* The nodes below node n in document order: pre-order, depth-first, left to
\* right.
RECURSIVE preOrder(_, _)
RECURSIVE preOrderAll(_, _)
preOrder(ns, n) == <<n>> \o preOrderAll(ns, ns[n].children)
preOrderAll(ns, cs) ==
    IF cs = <<>> THEN <<>> ELSE preOrder(ns, Head(cs)) \o preOrderAll(ns, Tail(cs))
descendantElements(ns, root) ==
    SelectSeq(preOrderAll(ns, ns[root].children), LAMBDA n : ns[n].nodeType = ElementType)

\* Element el satisfies the simple selector x.
satisfies(el, x) == matchesSelectorPart(nodes[el], parseSimpleSelector(x, 0).part)

childSelectors(x, y) == {x \o <<62>> \o y, x \o <<32, 62, 32>> \o y}
descendantSelector(x, y) == x \o <<32>> \o y
unionSelector(x, y) == x \o <<44, 32>> \o y

isChildOf(el, x, y) ==
    /\ satisfies(el, y)
    /\ parentElement(nodes, el) # 0
    /\ satisfies(parentElement(nodes, el), x)
isDescendantOf(el, x, y) ==
    /\ satisfies(el, y)
    /\ \E a \in ancestors(nodes, el) : satisfies(a, x)

\* C5: "x > y" is matched exactly by the y elements whose parent element
\* satisfies x, and "x y" exactly by the y elements with some ancestor element
\* satisfying x; querySelectorAll returns exactly those elements below its root.
C5_TwoStepChains ==
    \A x \in SimpleSelectors : \A y \in SimpleSelectors :
        /\ q_op = "matches" /\ q_arg \in childSelectors(x, y)
              => ~q_result.diverges /\ q_result.value = isChildOf(q_root, x, y)
        /\ q_op = "matches" /\ q_arg = descendantSelector(x, y)
              => ~q_result.diverges /\ q_result.value = isDescendantOf(q_root, x, y)
        /\ q_op = "querySelectorAll" /\ q_arg \in childSelectors(x, y)
              => /\ ~q_result.diverges
                 /\ q_result.value = SelectSeq(descendantElements(nodes, q_root),
                                               LAMBDA el : isChildOf(el, x, y))
        /\ q_op = "querySelectorAll" /\ q_arg = descendantSelector(x, y)
              => /\ ~q_result.diverges
                 /\ q_result.value = SelectSeq(descendantElements(nodes, q_root),
                                               LAMBDA el : isDescendantOf(el, x, y))

\* "div span" has matched an element that "div > span" would not: a span
\* whose div is a grandparent, not the parent.
C5_Witness ==
    /\ q_op = "matches"
    /\ q_arg = descendantSelector(Str(<<"d","i","v">>), Str(<<"s","p","a","n">>))
    /\ q_result.value = TRUE
    /\ ~isChildOf(q_root, Str(<<"d","i","v">>), Str(<<"s","p","a","n">>))
    /\ Len(nodes) >= 4

\* C6: querySelectorAll("a, b") is the list, in document order, of the
\* elements below the root that match a or b, the root left out and each
\* element once.
C6_UnionInDocumentOrder ==
    \A x \in SimpleSelectors : \A y \in SimpleSelectors :
        q_op = "querySelectorAll" /\ q_arg = unionSelector(x, y)
           => /\ ~q_result.diverges
              /\ q_result.value = SelectSeq(descendantElements(nodes, q_root),
                                            LAMBDA el : satisfies(el, x) \/ satisfies(el, y))
              /\ \A k1 \in DOMAIN q_result.value : \A k2 \in DOMAIN q_result.value :
                    q_result.value[k1] = q_result.value[k2] => k1 = k2
              /\ \A k \in DOMAIN q_result.value : q_result.value[k] # q_root

\* "div, .a" asked of an element that matches both groups: it is left out,
\* two elements below it are returned, and one of them matches both groups.
C6_Witness ==
    /\ q_op = "querySelectorAll"
    /\ q_arg = unionSelector(Str(<<"d","i","v">>), Str(<<".","a">>))
    /\ nodes[q_root].nodeType = ElementType
    /\ satisfies(q_root, Str(<<"d","i","v">>))
    /\ satisfies(q_root, Str(<<".","a">>))
    /\ Len(q_result.value) >= 2
    /\ \E k \in DOMAIN q_result.value :
          /\ satisfies(q_result.value[k], Str(<<"d","i","v">>))
          /\ satisfies(q_result.value[k], Str(<<".","a">>))
    /\ \E k \in DOMAIN q_result.value :
          ~satisfies(q_result.value[k], Str(<<"d","i","v">>))

\* The first element of the document, in document order, whose id attribute
\* is id; 0 when there is none.
firstWithId(ns, id) ==
    LET hits == SelectSeq(descendantElements(ns, 1),
                          LAMBDA el : /\ hasAttribute(ns[el], Str(<<"i","d">>))
                                      /\ ns[el].attributes[Str(<<"i","d">>)] = id)
    IN IF hits = <<>> THEN 0 ELSE hits[1]

\* C7: getElementById(id) returns the first element in document order whose
\* id attribute is exactly id, and null when no element has that id.
C7_GetElementByIdExact ==
    q_op = "getElementById"
       => ~q_result.diverges /\ q_result.value = firstWithId(nodes, q_arg)

(***************************************************************************)
(* Claims about chains (SpecChains)                                        *)
(***************************************************************************)
\* C11: a fragment of unsupported characters between two steps contributes
\* no constraint: "x + y", "x ~ y" and "x+y" match exactly the elements that
\* "x y" matches.
C11_UnsupportedNoConstraint ==
    \A x \in ChainSimpleSelectors : \A y \in ChainSimpleSelectors :
        \A u \in UnsupportedFragments :
            (q_op = "matches" /\ q_arg = x \o u \o y)
               => /\ ~q_result.diverges
                  /\ q_result.value = isDescendantOf(q_root, x, y)

\* The nearest ancestor element of el that satisfies b; 0 when there is none.
nearestAncestor(el, b) ==
    LET hits == {a \in ancestors(nodes, el) : satisfies(a, b)}
    IN IF hits = {} THEN 0
       ELSE CHOOSE a \in hits : \A other \in hits : other = a \/ other \in ancestors(nodes, a)

\* C14: for "a > b c" matches continues from the nearest b ancestor of the c
\* element and never retries a farther one: the result is whether that
\* nearest b ancestor has a parent element satisfying a.
C14_NoBacktracking ==
    \A a \in ChainSimpleSelectors : \A b \in ChainSimpleSelectors :
        \A c \in ChainSimpleSelectors :
            (q_op = "matches" /\ q_arg = a \o <<32, 62, 32>> \o b \o <<32>> \o c)
               => /\ ~q_result.diverges
                  /\ q_result.value =
                        (/\ satisfies(q_root, c)
                         /\ nearestAncestor(q_root, b) # 0
                         /\ parentElement(nodes, nearestAncestor(q_root, b)) # 0
                         /\ satisfies(parentElement(nodes, nearestAncestor(q_root, b)), a))

\* "div > p span" asked of a span whose nearest p has no div parent while a
\* farther p has one: the answer is false.
C14_Witness ==
    /\ q_op = "matches"
    /\ q_arg = Str(<<"d","i","v"," ",">"," ","p"," ","s","p","a","n">>)
    /\ q_result.value = FALSE
    /\ satisfies(q_root, Str(<<"s","p","a","n">>))
    /\ \E far \in ancestors(nodes, q_root) :
          /\ satisfies(far, Str(<<"p">>))
          /\ far # nearestAncestor(q_root, Str(<<"p">>))
          /\ parentElement(nodes, far) # 0
          /\ satisfies(parentElement(nodes, far), Str(<<"d","i","v">>))

(***************************************************************************)
(* Claims about appendChild (SpecAppend)                                   *)
(***************************************************************************)
\* How often node n occurs in the children list cs.
occurrencesIn(cs, n) == Cardinality({c \in DOMAIN cs : cs[c] = n})

\* The node reached from n by following the parent back-reference k times;
\* 0 once the chain has ended.
RECURSIVE parentAt(_, _, _)
parentAt(ns, n, k) ==
    IF n = 0 \/ k = 0 THEN n ELSE parentAt(ns, ns[n].parent, k - 1)

\* C13: every node occurs in the children list of at most one node, at most
\* once, that node is the one its parent back-reference names, and the
\* parent chain of every node ends: the graph is acyclic.
C13_SingleParent ==
    \A n \in DOMAIN nodes :
        /\ \A p \in DOMAIN nodes :
              /\ occurrencesIn(nodes[p].children, n) <= 1
              /\ occurrencesIn(nodes[p].children, n) = 1 => nodes[n].parent = p
        /\ parentAt(nodes, n, Len(nodes)) = 0

====
